---- MODULE Spec2Model ----
(***************************************************************************)
(* The PSZ/KKRT private set intersection of popsicle (src/src/psi/psz.rs): *)
(* one Sender (init, send) and one Receiver (init, receive) joined by a    *)
(* bidirectional byte stream.  The collaborators that psz.rs calls but     *)
(* that are not part of it (coin toss, input digest, cuckoo table, mask    *)
(* size, usize framing, the KKRT OPRF) are modelled from their contracts:  *)
(* the OPRF and the digest are ideal (collision free, symbolic), the       *)
(* cuckoo table is any valid placement.                                    *)
(***************************************************************************)
EXTENDS Integers, Sequences, FiniteSets, TLC

(* ------------------------------ bounds --------------------------------- *)
\* The universe the input elements are drawn from is 1..NElems.
NElems == 3
\* Largest input set (and input vector) of either party.
MaxSet == 2
\* Largest stash size the sizing schedule may assign to a run.
MaxStash == 1
\* Largest stash size of the runs over a transport that stays up (SpecDeep).
DeepStash == 2

(* --------------------------- program constants ------------------------- *)
NHASHES == 3
\* Statistical security parameter of the mask size.
Lambda == 40
\* Width of a usize on the wire, in bytes.
UsizeBytes == 8
\* Bits of a hash-index lane of a token (the region bin() reads for one i).
LaneBits == 4

VARIABLES
    X,            \* Sender's input set
    Y,            \* Receiver's input vector (distinct elements)
    sched,        \* stash size the sizing schedule assigns to |Y|
    closed,       \* the transport has been closed
    s2r,          \* bytes in flight, Sender -> Receiver
    r2s,          \* bytes in flight, Receiver -> Sender
    wlog,         \* phases of the writes so far, in order, repeats collapsed
    s_pc,         \* Sender's position
    s_nonce,      \* Sender's coin-toss seed (rng.gen()), while cointoss runs
    s_inputs,     \* Sender's tokens (inputs after compress_and_hash_inputs)
    s_masksize,
    s_nbins,
    s_stashsize,
    s_nseeds,     \* length of the seeds vector oprf.send returned
    s_i,          \* index of the next stream the Sender writes
    s_buf,        \* Sender's written and not yet flushed bytes
    s_psz,        \* number of bytes the Sender wrote in send, outside cointoss/OPRF
    s_wrote,      \* phases of the Sender's own writes, in order
    s_result,     \* what send returned
    r_pc,         \* Receiver's position
    r_nonce,      \* Receiver's coin-toss seed, while cointoss runs
    r_com,        \* the commitment the Receiver read
    r_tokens,     \* Receiver's tokens (first inputs_)
    tbl,          \* the cuckoo table's slots, bins then stash
    r_nbins,
    r_stashsize,
    r_masksize,
    r_queries,    \* the OPRF query vector (second inputs_)
    r_outputs,    \* the OPRF outputs
    hs,           \* the NHASHES sets read from the bin streams
    ss,           \* the stashsize sets read from the stash streams
    r_i,          \* index of the stream the Receiver reads
    r_cnt,        \* records read of that stream
    r_psz,        \* bytes the Receiver wrote in receive, outside cointoss/OPRF
    r_buf,        \* Receiver's written and not yet flushed bytes
    r_wrote,      \* phases of the Receiver's own writes, in order
    r_reads,      \* stream records read so far (successful read_exact calls)
    intersection, \* the vector receive builds
    r_result      \* what receive returned

envvars == <<X, Y, sched>>
svars == <<s_pc, s_nonce, s_inputs, s_masksize, s_nbins, s_stashsize, s_nseeds,
           s_i, s_buf, s_psz, s_wrote, s_result>>
rvars == <<r_pc, r_nonce, r_com, r_tokens, tbl, r_nbins, r_stashsize, r_masksize,
           r_queries, r_outputs, hs, ss, r_i, r_cnt, r_psz, r_buf, r_wrote,
           r_reads, intersection, r_result>>
vars == <<X, Y, sched, closed, s2r, r2s, wlog, svars, rvars>>

(* ------------------------------ helpers -------------------------------- *)
Elems == 1..NElems

RECURSIVE Pow(_, _)
Pow(b, k) == IF k = 0 THEN 1 ELSE b * Pow(b, k - 1)

\* Bitwise exclusive or of two naturals (Block ^ Block).
RECURSIVE BitXor(_, _)
BitXor(a, b) ==
    IF a = 0 THEN b
    ELSE IF b = 0 THEN a
    ELSE (((a % 2) + (b % 2)) % 2) + 2 * BitXor(a \div 2, b \div 2)

Range(f) == {f[k] : k \in DOMAIN f}

Take(q, k) == SubSeq(q, 1, k)
Drop(q, k) == SubSeq(q, k + 1, Len(q))

RECURSIVE Flatten(_)
Flatten(qq) == IF qq = <<>> THEN <<>> ELSE Head(qq) \o Flatten(Tail(qq))

\* The elements of a set of integers as a vector, ascending.
RECURSIVE SortedSeq(_)
SortedSeq(S) ==
    IF S = {} THEN <<>>
    ELSE LET lo == CHOOSE a \in S : \A b \in S : a <= b
         IN <<lo>> \o SortedSeq(S \ {lo})

\* Option<T>: None is the empty vector, Some(v) the one-element vector.
None == <<>>
Some(v) == <<v>>
IsSome(o) == Len(o) = 1
Unwrap(o) == o[1]

\* All orders slice::shuffle can leave a vector of length n in.
Perms(n) == {f \in [1..n -> 1..n] : \A a, b \in 1..n : a # b => f[a] # f[b]}

\* Mutant of Shuffled: the shuffle leaves the vector as it was.
Shuffled_Identity(q, f) == q

Shuffled(q, f) == [k \in 1..Len(q) |-> q[f[k]]]

\* writer.flush(): the written bytes go on the wire, behind those before.
Flush(wire, buf) == wire \o buf

\* The log of write phases: a phase is entered once.
Logged(lg, ph) == IF lg # <<>> /\ lg[Len(lg)] = ph THEN lg ELSE Append(lg, ph)

(* ------------------- collaborators outside psz.rs ---------------------- *)
\* scuttlebutt::cointoss: commit, exchange, reveal; the key is the xor.
Nonces == {1, 2}
Commit(seed) == [com |-> seed]
CoinKey(a, b) == BitXor(a, b)

\* utils::compress_and_hash_inputs: a keyed injective digest into tokens whose
\* low two bits (the place of the hash index) are zero.  No token is out of
\* its reach: element 1 under key 0 has the all-zero token.
DigestPrime == 1021
Digest(e, key) == 4 * (((e - 1) * 293 + key * 577) % DigestPrime)
compress_and_hash_inputs(inputs, key) ==
    [k \in 1..Len(inputs) |-> Digest(inputs[k], key)]

\* cuckoo::compute_masksize: ceil((2 log2 n + Lambda) / 8), an error for n = 0.
MaskOk(n) == n > 0
compute_masksize(n) ==
    CHOOSE k \in (Lambda \div 8)..(Lambda \div 8 + 4) :
        /\ Pow(2, 8 * k - Lambda) >= n * n
        /\ (k > Lambda \div 8 => Pow(2, 8 * (k - 1) - Lambda) < n * n)

\* CuckooHash sizing: m = ceil(1.2 n) bins; the stash size is the schedule's.
compute_nbins(n) == (12 * n + 9) \div 10

\* CuckooHash::bin: hash function i reads the i-th lane of the token.
CuckooBin(t, i, nbins) == ((t \div Pow(2, LaneBits * i)) % Pow(2, LaneBits)) % nbins

\* A cuckoo item and the slots a token may legally occupy.
Item(entry, input_index, hash_index) ==
    [entry |-> entry, input_index |-> input_index, hash_index |-> hash_index]
SlotChoices(t, nbins, stashsize) ==
    {<<CuckooBin(t, i, nbins), Some(i)>> : i \in 0..(NHASHES - 1)}
        \cup {<<nbins + j, None>> : j \in 0..(stashsize - 1)}

\* CuckooHash::new: every table that holds each token in exactly one slot, a
\* bin slot p with hash_index Some(i) only if bin(t, i, m) = p, a stash slot
\* with hash_index None.  Empty when the insertion fails.
CuckooTables(tokens, nbins, stashsize) ==
    LET n == Len(tokens)
        all == UNION {SlotChoices(tokens[k], nbins, stashsize) : k \in 1..n}
        places == {a \in [1..n -> all] :
                     /\ \A k \in 1..n : a[k] \in SlotChoices(tokens[k], nbins, stashsize)
                     /\ \A k, l \in 1..n : k # l => a[k][1] # a[l][1]}
    IN {[p \in 1..(nbins + stashsize) |->
            IF \E k \in 1..n : a[k][1] = p - 1
            THEN LET k == CHOOSE k \in 1..n : a[k][1] = p - 1
                 IN Some(Item(tokens[k], k, a[k][2]))
            ELSE None] : a \in places}

\* stream::write_usize / read_usize: 8 bytes, little endian.
RECURSIVE LeBytes(_, _)
LeBytes(v, k) == IF k = 0 THEN <<>> ELSE <<v % 256>> \o LeBytes(v \div 256, k - 1)
EncodeUsize(v) == LeBytes(v, UsizeBytes)
RECURSIVE DecodeUsize(_)
DecodeUsize(bytes) ==
    IF bytes = <<>> THEN 0 ELSE Head(bytes) + 256 * DecodeUsize(Tail(bytes))

\* The KKRT OPRF, ideal: the output for slot j on query q is the symbol F(j, q),
\* whose k-th byte is <<j, q, k>>; the Sender gets it as encode(q) xor seeds[j].
OprfPrefix(slot, q, masksize) == [k \in 1..masksize |-> <<slot, q, k>>]
OprfMsg(n) == [oprf |-> n]
OprfInitMsg(who) == [oprf_init |-> who]

(* ------------------------- psz.rs, the Sender -------------------------- *)
\* Block::from(i as u128)
hindex(i) == i

\* `seeds[bin]` with `let bin = CuckooHash::bin(*input, i, nbins)`.
BinSeedIndex(input, i, nbins) == CuckooBin(input, i, nbins)

\* Mutant of StashSeedIndex: the stash seeds are taken one slot further on.
StashSeedIndex_PastEnd(j, nbins) == nbins + j + 1

\* `seeds[nbins + i]`
StashSeedIndex(j, nbins) == nbins + j

\* Mutant of BinRecord: the hash index is not spliced into the OPRF input.
BinRecord_NoIndex(input, i, nbins, masksize) ==
    OprfPrefix(CuckooBin(input, i, nbins), input, masksize)

\* One record of bin stream i: bin := h_i(x); F(k_bin, x ^ hidx), chopped.
BinRecord(input, i, nbins, masksize) ==
    OprfPrefix(BinSeedIndex(input, i, nbins), BitXor(input, hindex(i)), masksize)

\* Lines 88-95: the vector of encode(x); encode(x) stands for x in F(j, x).
EncodedInputs(inputs) == [k \in 1..Len(inputs) |-> inputs[k]]

\* One record of stash stream j: F(k_{nbins + j}, x), chopped.
StashRecord(enc, j, nbins, masksize) ==
    OprfPrefix(StashSeedIndex(j, nbins), enc, masksize)

\* The bytes of one stream, in the order of the shuffled vector.
BinStream(order, i, nbins, masksize) ==
    Flatten([k \in 1..Len(order) |-> BinRecord(order[k], i, nbins, masksize)])
StashStream(order, j, nbins, masksize) ==
    Flatten([k \in 1..Len(order) |-> StashRecord(order[k], j, nbins, masksize)])

\* Mutant of CanSend: send runs on a Sender whose init never ran.
CanSend_NoInit(pc) == pc \in {"Uninit", "Initialized"}

\* send takes `&mut self`: only on the Sender a finished init returned.
CanSend(pc) == pc = "Initialized"

\* Mutant of S_AfterBins: the stash streams are never sent.
S_AfterBins_NoStash(stashsize) == "Completed"

\* `if stashsize > 0 { ... } Ok(())`
S_AfterBins(stashsize) == IF stashsize > 0 THEN "Stash" ELSE "Completed"

\* Mutant of S_AfterMask: the error of compute_masksize is dropped.
S_AfterMask_NoCheck(ok) == "ReadMS"

\* `let masksize = compute_masksize(inputs.len())?;`: on, or out by the `?`.
S_AfterMask(ok) == IF ok THEN "ReadMS" ELSE "Failed"

\* Mutant of S_AfterStash: send returns without the flush of line 106.
S_AfterStash_NoFlush == "Completed"

\* After the last stash stream: `writer.flush()?` (106), then Ok(()).
S_AfterStash == "StashFlush"

\* `let nbins = read_usize(reader)?; let stashsize = read_usize(reader)?;`
ReadMS(wire) ==
    [nbins |-> DecodeUsize(Take(wire, UsizeBytes)),
     stashsize |-> DecodeUsize(SubSeq(wire, UsizeBytes + 1, 2 * UsizeBytes))]

(* ------------------------ psz.rs, the Receiver ------------------------- *)
\* Mutant of ReceiverQuery: a bin item is queried without its hash index.
ReceiverQuery_NoIndex(opt_item) ==
    IF IsSome(opt_item) THEN Unwrap(opt_item).entry ELSE 0

\* The OPRF input of one slot: x ^ i in a bin, x in the stash, default if empty.
ReceiverQuery(opt_item) ==
    IF IsSome(opt_item)
    THEN LET item == Unwrap(opt_item)
         IN IF IsSome(item.hash_index)
            THEN BitXor(item.entry, hindex(Unwrap(item.hash_index)))
            ELSE item.entry
    ELSE 0

\* receive takes `&mut self`: only on the Receiver a finished init returned.
CanReceive(pc) == pc = "Initialized"

\* Mutant of R_AfterTable: the OPRF is driven before (m, s) is sent.
R_AfterTable_OprfFirst == "Oprf"

\* What receive does once the table and the mask size are there (152-154).
R_AfterTable == "SendMS"

\* Mutant of WriteMS: s is written before m.
WriteMS_Swapped(nbins, stashsize) == EncodeUsize(stashsize) \o EncodeUsize(nbins)

\* `stream::write_usize(writer, nbins)?; stream::write_usize(writer, stashsize)?;`
WriteMS(nbins, stashsize) == EncodeUsize(nbins) \o EncodeUsize(stashsize)

\* Mutant of OccupiedItem: an empty slot is taken for a bin item of the
\* default token.
OccupiedItem_Default(opt_item) ==
    IF IsSome(opt_item) THEN opt_item ELSE Some(Item(0, 1, Some(0)))

\* `if let Some(item) = opt_item`: the item of a slot, if it has one.
OccupiedItem(opt_item) == opt_item

\* Mutant of SlotSet: the stash set is indexed by the slot position.
SlotSet_NoOffset(item, i, nbins) ==
    IF IsSome(item.hash_index)
    THEN <<"H", Unwrap(item.hash_index)>>
    ELSE <<"S", i>>

\* The set the prefix of the item of slot i (0-based) is looked up in:
\* hs[hidx] for a bin item, ss[j] with `let j = i - nbins` for a stash item.
SlotSet(item, i, nbins) ==
    IF IsSome(item.hash_index)
    THEN <<"H", Unwrap(item.hash_index)>>
    ELSE <<"S", i - nbins>>

\* hs[hidx] or ss[j] exists (j is a usize: below zero the subtraction
\* overflows, and wrapped around it is past the end of ss).
SetInRange(set, hsets, ssets) ==
    IF set[1] = "H"
    THEN set[2] + 1 \in DOMAIN hsets
    ELSE set[2] >= 0 /\ set[2] + 1 \in DOMAIN ssets

\* Mutant of SlotMatches: every occupied slot counts as a hit.
SlotMatches_NoTest(p, table, outputs, hsets, ssets, nbins, masksize) ==
    IsSome(table[p])

\* The membership test of slot p (1-based; the code's i is p - 1).
SlotMatches(p, table, outputs, hsets, ssets, nbins, masksize) ==
    /\ IsSome(OccupiedItem(table[p]))
    /\ LET item == Unwrap(OccupiedItem(table[p]))
           prefix == OprfPrefix(outputs[p][1], outputs[p][2], masksize)
           set == SlotSet(item, p - 1, nbins)
       IN IF set[1] = "H"
          THEN prefix \in hsets[set[2] + 1]
          ELSE prefix \in ssets[set[2] + 1]

\* Mutant of Pushed: the token of the item is pushed, not the input.
Pushed_Entry(item, inputs) == item.entry

\* `intersection.push(inputs[item.input_index].clone())`
Pushed(item, inputs) == inputs[item.input_index]

\* Mutant of Reconstruct: the matched inputs in the order of the input
\* vector.
Reconstruct_InputOrder(p, table, outputs, hsets, ssets, nbins, masksize, inputs) ==
    LET hits == {Unwrap(table[q]).input_index :
                    q \in {q \in p..Len(table) :
                             /\ q <= Len(outputs)
                             /\ SlotMatches(q, table, outputs, hsets, ssets,
                                            nbins, masksize)}}
    IN [k \in 1..Cardinality(hits) |-> inputs[SortedSeq(hits)[k]]]

\* The loop over tbl.items().zip(outputs): slots p..end, in order.
RECURSIVE Reconstruct(_, _, _, _, _, _, _, _)
Reconstruct(p, table, outputs, hsets, ssets, nbins, masksize, inputs) ==
    IF p > Len(table) \/ p > Len(outputs) THEN <<>>
    ELSE (IF SlotMatches(p, table, outputs, hsets, ssets, nbins, masksize)
          THEN <<Pushed(Unwrap(OccupiedItem(table[p])), inputs)>>
          ELSE <<>>)
         \o Reconstruct(p + 1, table, outputs, hsets, ssets, nbins, masksize, inputs)

\* Mutant of StreamRead: the loop stops one record early.
StreamRead_OneShort(cnt, n) == cnt + 1 >= n

\* `for _ in 0..n` of one stream: the stream is read once n records are in.
StreamRead(cnt, n) == cnt >= n

\* Some occupied slot of the loop indexes hs or ss out of range: a panic.
IndexPanics(table, outputs, hsets, ssets, nbins) ==
    \E p \in 1..Len(table) :
        /\ p <= Len(outputs)
        /\ IsSome(OccupiedItem(table[p]))
        /\ ~SetInRange(SlotSet(Unwrap(OccupiedItem(table[p])), p - 1, nbins),
                       hsets, ssets)

\* After the last bin stream: the stash streams if there are any.
R_AfterBins(stashsize) == IF stashsize > 0 THEN "Stash" ELSE "Reconstruct"

(* ------------------------------- Init ---------------------------------- *)
InputVectors ==
    UNION {{q \in [1..n -> Elems] : \A a, b \in 1..n : a # b => q[a] # q[b]}
           : n \in 0..MaxSet}

\* Both parties before init, over a fresh transport.
InitParties ==
    /\ X \in {S \in SUBSET Elems : Cardinality(S) <= MaxSet}
    /\ Y \in InputVectors
    /\ closed = FALSE
    /\ s2r = <<>> /\ r2s = <<>> /\ wlog = <<>>
    /\ s_pc = "Uninit" /\ s_nonce = 0 /\ s_inputs = <<>> /\ s_masksize = 0
    /\ s_nbins = 0 /\ s_stashsize = 0 /\ s_nseeds = 0 /\ s_i = 0
    /\ s_buf = <<>> /\ s_psz = 0 /\ s_wrote = <<>>
    /\ s_result = "none"
    /\ r_pc = "Uninit" /\ r_nonce = 0 /\ r_com = Commit(0) /\ r_tokens = <<>>
    /\ tbl = <<>> /\ r_nbins = 0 /\ r_stashsize = 0 /\ r_masksize = 0
    /\ r_queries = <<>> /\ r_outputs = <<>> /\ hs = <<>> /\ ss = <<>>
    /\ r_i = 0 /\ r_cnt = 0 /\ r_psz = <<>> /\ r_buf = <<>>
    /\ r_wrote = <<>> /\ r_reads = 0
    /\ intersection = <<>> /\ r_result = "none"

Init == sched \in 0..MaxStash /\ InitParties

\* The same with the deeper stashes.
InitDeep == sched \in 0..DeepStash /\ InitParties

STerminal == s_pc \in {"Completed", "Failed"}
RTerminal == r_pc \in {"Completed", "Failed"}

(* ------------------------- Sender::init (41-48) ------------------------ *)
S_InitWrite ==
    /\ s_pc = "Uninit" /\ ~closed
    /\ s2r' = Append(s2r, OprfInitMsg("S"))
    /\ wlog' = Logged(wlog, "oprf_init")
    /\ s_wrote' = Logged(s_wrote, "oprf_init")
    /\ s_pc' = "InitWait"
    /\ UNCHANGED <<envvars, closed, r2s, rvars, s_nonce, s_inputs, s_masksize,
                   s_nbins, s_stashsize, s_nseeds, s_i, s_buf, s_psz,
                   s_result>>

S_InitRead ==
    /\ s_pc = "InitWait" /\ r2s # <<>>
    /\ r2s' = Tail(r2s)
    /\ s_pc' = "Initialized"
    /\ UNCHANGED <<envvars, closed, s2r, wlog, rvars, s_nonce, s_inputs,
                   s_masksize, s_nbins, s_stashsize, s_nseeds, s_i, s_buf, s_psz, s_wrote, s_result>>

(* ------------------------- Sender::send (50-109) ----------------------- *)
\* cointoss::send, first half: commit to a fresh seed.
S_CoinCommit ==
    /\ CanSend(s_pc) /\ ~closed
    /\ \E a \in Nonces :
          /\ s_nonce' = a
          /\ s2r' = Append(s2r, Commit(a))
    /\ wlog' = Logged(wlog, "cointoss")
    /\ s_wrote' = Logged(s_wrote, "cointoss")
    /\ s_pc' = "CoinWait"
    /\ UNCHANGED <<envvars, closed, r2s, rvars, s_inputs, s_masksize, s_nbins,
                   s_stashsize, s_nseeds, s_i, s_buf, s_psz, s_result>>

\* cointoss::send, second half, then lines 58-59.
S_CoinReveal ==
    /\ s_pc = "CoinWait" /\ ~closed /\ r2s # <<>>
    /\ LET key == CoinKey(s_nonce, Head(r2s).seed)
           inputs == compress_and_hash_inputs(SortedSeq(X), key)
       IN /\ r2s' = Tail(r2s)
          /\ s2r' = Append(s2r, [seed |-> s_nonce])
          /\ wlog' = Logged(wlog, "cointoss")
          /\ s_wrote' = Logged(s_wrote, "cointoss")
          /\ s_inputs' = inputs
          /\ s_nonce' = 0
          /\ s_pc' = S_AfterMask(MaskOk(Len(inputs)))
          /\ IF S_AfterMask(MaskOk(Len(inputs))) = "Failed"
             THEN /\ s_masksize' = s_masksize
                  /\ s_result' = "BadInputSize"
             ELSE /\ s_masksize' = compute_masksize(Len(inputs))
                  /\ s_result' = s_result
    /\ UNCHANGED <<envvars, closed, rvars, s_nbins, s_stashsize, s_nseeds, s_i,
                   s_buf, s_psz>>

\* Lines 60-61.
S_ReadMS ==
    /\ s_pc = "ReadMS" /\ Len(r2s) >= 2 * UsizeBytes
    /\ s_nbins' = ReadMS(r2s).nbins
    /\ s_stashsize' = ReadMS(r2s).stashsize
    /\ r2s' = Drop(r2s, 2 * UsizeBytes)
    /\ s_pc' = "Oprf"
    /\ UNCHANGED <<envvars, closed, s2r, wlog, rvars, s_nonce, s_inputs,
                   s_masksize, s_nseeds, s_i, s_buf, s_psz, s_wrote, s_result>>

\* Line 62: oprf.send for nbins + stashsize slots.
S_OprfSend ==
    /\ s_pc = "Oprf" /\ r2s # <<>>
    /\ r2s' = Tail(r2s)
    /\ s_nseeds' = s_nbins + s_stashsize
    /\ s_i' = 0
    /\ s_pc' = "Bins"
    /\ UNCHANGED <<envvars, closed, s2r, wlog, rvars, s_nonce, s_inputs,
                   s_masksize, s_nbins, s_stashsize, s_buf, s_psz, s_wrote,
                   s_result>>

\* Lines 67-83, one turn of the loop: shuffle, write n records, flush.  A
\* shuffle leaves the vector in any of its orders whatever order it had, so
\* the order a turn leaves behind is not kept.  With nbins = 0, bin() takes
\* a remainder by zero and send panics, as it does on a bin past the seeds.
S_BinStream ==
    /\ s_pc = "Bins" /\ ~closed
    /\ IF \/ s_nbins = 0
          \/ \E k \in 1..Len(s_inputs) :
                BinSeedIndex(s_inputs[k], s_i, s_nbins) >= s_nseeds
       THEN /\ s_pc' = "Failed"
            /\ s_result' = "Panic"
            /\ UNCHANGED <<s2r, s_buf, s_psz, s_wrote, wlog, s_i>>
       ELSE /\ \E f \in Perms(Len(s_inputs)) :
                  LET order == Shuffled(s_inputs, f)
                      bytes == BinStream(order, s_i, s_nbins, s_masksize)
                  IN /\ s2r' = Flush(s2r, s_buf \o bytes)
                     /\ s_psz' = s_psz + Len(bytes)
            /\ s_buf' = <<>>
            /\ wlog' = Logged(wlog, "bin")
            /\ s_wrote' = Logged(s_wrote, "bin")
            /\ IF s_i + 1 = NHASHES
               THEN /\ s_i' = 0
                    /\ s_pc' = S_AfterBins(s_stashsize)
                    /\ s_result' = IF S_AfterBins(s_stashsize) = "Completed"
                                   THEN "Ok" ELSE s_result
               ELSE /\ s_i' = s_i + 1
                    /\ s_pc' = s_pc
                    /\ s_result' = s_result
    /\ UNCHANGED <<envvars, closed, r2s, rvars, s_nonce, s_inputs, s_masksize,
                   s_nbins, s_stashsize, s_nseeds>>

\* Lines 88-105, one turn of the loop: shuffle the encoded vector, write n
\* records.  A stash seed past the end of seeds is a panic.
S_StashStream ==
    /\ s_pc = "Stash" /\ ~closed
    /\ IF StashSeedIndex(s_i, s_nbins) >= s_nseeds /\ s_inputs # <<>>
       THEN /\ s_pc' = "Failed"
            /\ s_result' = "Panic"
            /\ UNCHANGED <<s_buf, s_psz, s_wrote, wlog, s_i>>
       ELSE /\ \E f \in Perms(Len(s_inputs)) :
                  LET order == Shuffled(EncodedInputs(s_inputs), f)
                      bytes == StashStream(order, s_i, s_nbins, s_masksize)
                  IN /\ s_buf' = s_buf \o bytes
                     /\ s_psz' = s_psz + Len(bytes)
            /\ wlog' = Logged(wlog, "stash")
            /\ s_wrote' = Logged(s_wrote, "stash")
            /\ s_i' = s_i + 1
            /\ s_pc' = IF s_i + 1 = s_stashsize THEN S_AfterStash ELSE s_pc
            /\ s_result' = IF s_i + 1 = s_stashsize /\ S_AfterStash = "Completed"
                           THEN "Ok" ELSE s_result
    /\ UNCHANGED <<envvars, closed, s2r, r2s, rvars, s_nonce, s_inputs,
                   s_masksize, s_nbins, s_stashsize, s_nseeds>>

\* Lines 106-108.
S_StashFlush ==
    /\ s_pc = "StashFlush" /\ ~closed
    /\ s2r' = Flush(s2r, s_buf)
    /\ s_buf' = <<>>
    /\ s_pc' = "Completed"
    /\ s_result' = "Ok"
    /\ UNCHANGED <<envvars, closed, r2s, wlog, rvars, s_nonce, s_inputs,
                   s_masksize, s_nbins, s_stashsize, s_nseeds, s_i, s_psz, s_wrote>>

\* Any `?` on a read or write of the closed transport.
S_IoFail ==
    /\ closed /\ ~STerminal
    /\ s_pc' = "Failed"
    /\ s_result' = "Io"
    /\ UNCHANGED <<envvars, closed, s2r, r2s, wlog, rvars, s_nonce, s_inputs,
                   s_masksize, s_nbins, s_stashsize, s_nseeds, s_i, s_buf, s_psz, s_wrote>>

(* ----------------------- Receiver::init (115-122) ---------------------- *)
R_InitWrite ==
    /\ r_pc = "Uninit" /\ ~closed
    /\ r2s' = Append(r2s, OprfInitMsg("R"))
    /\ wlog' = Logged(wlog, "oprf_init")
    /\ r_wrote' = Logged(r_wrote, "oprf_init")
    /\ r_pc' = "InitWait"
    /\ UNCHANGED <<envvars, closed, s2r, svars, r_nonce, r_com, r_tokens, tbl,
                   r_nbins, r_stashsize, r_masksize, r_queries, r_outputs, hs, ss,
                   r_i, r_cnt, r_psz, r_buf, r_reads, intersection, r_result>>

R_InitRead ==
    /\ r_pc = "InitWait" /\ s2r # <<>>
    /\ s2r' = Tail(s2r)
    /\ r_pc' = "Initialized"
    /\ UNCHANGED <<envvars, closed, r2s, wlog, svars, r_nonce, r_com, r_tokens,
                   tbl, r_nbins, r_stashsize, r_masksize, r_queries, r_outputs, hs,
                   ss, r_i, r_cnt, r_psz, r_buf, r_wrote, r_reads, intersection, r_result>>

(* ---------------------- Receiver::receive (124-227) -------------------- *)
\* cointoss::receive, first half: read the commitment, send a fresh seed.
R_CoinReply ==
    /\ CanReceive(r_pc) /\ ~closed /\ s2r # <<>>
    /\ r_com' = Head(s2r)
    /\ s2r' = Tail(s2r)
    /\ \E b \in Nonces :
          /\ r_nonce' = b
          /\ r2s' = Append(r2s, [seed |-> b])
    /\ wlog' = Logged(wlog, "cointoss")
    /\ r_wrote' = Logged(r_wrote, "cointoss")
    /\ r_pc' = "CoinWait"
    /\ UNCHANGED <<envvars, closed, svars, r_tokens, tbl, r_nbins, r_stashsize,
                   r_masksize, r_queries, r_outputs, hs, ss, r_i, r_cnt, r_psz,
                   r_buf, r_reads, intersection, r_result>>

\* cointoss::receive, second half (open the commitment), then line 139.
R_CoinFinish ==
    /\ r_pc = "CoinWait" /\ s2r # <<>>
    /\ s2r' = Tail(s2r)
    /\ r_nonce' = 0 /\ r_com' = Commit(0)
    /\ IF Commit(Head(s2r).seed) = r_com
       THEN /\ r_tokens' = compress_and_hash_inputs(Y, CoinKey(Head(s2r).seed, r_nonce))
            /\ r_pc' = "Build"
            /\ r_result' = r_result
       ELSE /\ r_tokens' = r_tokens
            /\ r_pc' = "Failed"
            /\ r_result' = "CoinTossMismatch"
    /\ UNCHANGED <<envvars, closed, r2s, wlog, svars, tbl, r_nbins, r_stashsize,
                   r_masksize, r_queries, r_outputs, hs, ss, r_i, r_cnt, r_psz,
                   r_buf, r_wrote, r_reads, intersection>>

\* Lines 141-145: the cuckoo table and the mask size.
R_BuildTable ==
    /\ r_pc = "Build"
    /\ LET n == Len(Y)
           tables == CuckooTables(r_tokens, compute_nbins(n), sched)
       IN IF tables # {} /\ MaskOk(n)
          THEN /\ tbl' \in tables
               /\ r_nbins' = compute_nbins(n)
               /\ r_stashsize' = sched
               /\ r_masksize' = compute_masksize(n)
               /\ r_pc' = R_AfterTable
               /\ r_result' = r_result
          ELSE /\ r_pc' = "Failed"
               /\ r_result' = IF tables = {} THEN "CuckooFailed" ELSE "BadInputSize"
               /\ UNCHANGED <<tbl, r_nbins, r_stashsize, r_masksize>>
    /\ UNCHANGED <<envvars, closed, s2r, r2s, wlog, svars, r_nonce, r_com,
                   r_tokens, r_queries, r_outputs, hs, ss, r_i, r_cnt, r_psz,
                   r_buf, r_wrote, r_reads, intersection>>

\* Lines 152-177: write m, write s, flush; form the OPRF inputs; assert_eq!.
R_SendMS ==
    /\ r_pc = "SendMS" /\ ~closed
    /\ r2s' = Flush(r2s, r_buf \o WriteMS(r_nbins, r_stashsize))
    /\ r_buf' = <<>>
    /\ r_psz' = r_psz \o WriteMS(r_nbins, r_stashsize)
    /\ wlog' = Logged(wlog, "ms")
    /\ r_wrote' = Logged(r_wrote, "ms")
    /\ r_reads' = r_reads
    /\ LET inputs_ == [p \in 1..Len(tbl) |-> ReceiverQuery(tbl[p])]
       IN /\ r_queries' = inputs_
          /\ IF Len(inputs_) = r_nbins + r_stashsize
             THEN r_pc' = "Oprf" /\ r_result' = r_result
             ELSE r_pc' = "Failed" /\ r_result' = "Panic"
    /\ UNCHANGED <<envvars, closed, s2r, svars, r_nonce, r_com, r_tokens, tbl,
                   r_nbins, r_stashsize, r_masksize, r_outputs, hs, ss, r_i, r_cnt,
                   intersection>>

\* Lines 179-188: oprf.receive, then the empty sets.
R_OprfReceive ==
    /\ r_pc = "Oprf" /\ ~closed
    /\ r2s' = Append(r2s, OprfMsg(Len(r_queries)))
    /\ wlog' = Logged(wlog, "oprf")
    /\ r_wrote' = Logged(r_wrote, "oprf")
    /\ r_outputs' = [p \in 1..Len(r_queries) |-> <<p - 1, r_queries[p]>>]
    /\ hs' = [i \in 1..NHASHES |-> {}]
    /\ ss' = [j \in 1..r_stashsize |-> {}]
    /\ r_i' = 0 /\ r_cnt' = 0
    /\ r_pc' = "Bins"
    /\ UNCHANGED <<envvars, closed, s2r, svars, r_nonce, r_com, r_tokens, tbl,
                   r_nbins, r_stashsize, r_masksize, r_queries, r_psz, r_buf, r_reads,
                   intersection, r_result>>

\* Lines 190-196, one read_exact of masksize bytes into h.
R_ReadBin ==
    /\ r_pc = "Bins" /\ Len(s2r) >= r_masksize
    /\ hs' = [hs EXCEPT ![r_i + 1] = @ \cup {Take(s2r, r_masksize)}]
    /\ s2r' = Drop(s2r, r_masksize)
    /\ r_reads' = r_reads + 1
    /\ IF StreamRead(r_cnt + 1, Len(Y))
       THEN /\ r_cnt' = 0
            /\ IF r_i + 1 = NHASHES
               THEN r_i' = 0 /\ r_pc' = R_AfterBins(r_stashsize)
               ELSE r_i' = r_i + 1 /\ r_pc' = r_pc
       ELSE r_cnt' = r_cnt + 1 /\ r_i' = r_i /\ r_pc' = r_pc
    /\ UNCHANGED <<envvars, closed, r2s, wlog, svars, r_nonce, r_com, r_tokens,
                   tbl, r_nbins, r_stashsize, r_masksize, r_queries, r_outputs, ss,
                   r_psz, r_buf, r_wrote, intersection, r_result>>

\* Lines 198-204, one read_exact of masksize bytes into s.
R_ReadStash ==
    /\ r_pc = "Stash" /\ Len(s2r) >= r_masksize
    /\ ss' = [ss EXCEPT ![r_i + 1] = @ \cup {Take(s2r, r_masksize)}]
    /\ s2r' = Drop(s2r, r_masksize)
    /\ r_reads' = r_reads + 1
    /\ IF StreamRead(r_cnt + 1, Len(Y))
       THEN /\ r_cnt' = 0
            /\ IF r_i + 1 = r_stashsize
               THEN r_i' = 0 /\ r_pc' = "Reconstruct"
               ELSE r_i' = r_i + 1 /\ r_pc' = r_pc
       ELSE r_cnt' = r_cnt + 1 /\ r_i' = r_i /\ r_pc' = r_pc
    /\ UNCHANGED <<envvars, closed, r2s, wlog, svars, r_nonce, r_com, r_tokens,
                   tbl, r_nbins, r_stashsize, r_masksize, r_queries, r_outputs, hs,
                   r_psz, r_buf, r_wrote, intersection, r_result>>

\* Lines 208-226.
R_Reconstruct ==
    /\ r_pc = "Reconstruct"
    /\ IF IndexPanics(tbl, r_outputs, hs, ss, r_nbins)
       THEN /\ intersection' = intersection
            /\ r_result' = "Panic"
            /\ r_pc' = "Failed"
       ELSE /\ intersection' = Reconstruct(1, tbl, r_outputs, hs, ss, r_nbins,
                                           r_masksize, Y)
            /\ r_result' = "Ok"
            /\ r_pc' = "Completed"
    /\ UNCHANGED <<envvars, closed, s2r, r2s, wlog, svars, r_nonce, r_com,
                   r_tokens, tbl, r_nbins, r_stashsize, r_masksize, r_queries,
                   r_outputs, hs, ss, r_i, r_cnt, r_psz, r_buf, r_wrote, r_reads>>

\* Any `?` on a read or write of the closed transport.
R_IoFail ==
    /\ closed /\ ~RTerminal /\ r_pc \notin {"Build", "Reconstruct"}
    /\ r_pc' = "Failed"
    /\ r_result' = "Io"
    /\ UNCHANGED <<envvars, closed, s2r, r2s, wlog, svars, r_nonce, r_com,
                   r_tokens, tbl, r_nbins, r_stashsize, r_masksize, r_queries,
                   r_outputs, hs, ss, r_i, r_cnt, r_psz, r_buf, r_wrote, r_reads, intersection>>

(* ---------------------------- the transport ---------------------------- *)
\* The stream is closed under the parties (cancellation, a lost connection).
CloseTransport ==
    /\ ~closed /\ ~(STerminal /\ RTerminal)
    /\ closed' = TRUE
    /\ UNCHANGED <<envvars, s2r, r2s, wlog, svars, rvars>>

(* --------------------------- specifications ---------------------------- *)
SenderStep ==
    \/ S_InitWrite \/ S_InitRead \/ S_CoinCommit \/ S_CoinReveal \/ S_ReadMS
    \/ S_OprfSend \/ S_BinStream \/ S_StashStream \/ S_StashFlush

ReceiverStep ==
    \/ R_InitWrite \/ R_InitRead \/ R_CoinReply \/ R_CoinFinish \/ R_BuildTable
    \/ R_SendMS \/ R_OprfReceive \/ R_ReadBin \/ R_ReadStash \/ R_Reconstruct

\* Honest parties over a transport that stays up.
NextReliable == SenderStep \/ ReceiverStep

Next == SenderStep \/ ReceiverStep \/ CloseTransport \/ S_IoFail \/ R_IoFail

Spec == Init /\ [][Next]_vars

SpecReliable == Init /\ [][NextReliable]_vars

\* Honest parties, a transport that stays up, stashes of up to DeepStash.
SpecDeep == InitDeep /\ [][NextReliable]_vars

(* ------------------------------- claims -------------------------------- *)
YSet == Range(Y)

\* The vector holds each element of S once and nothing else.
HoldsExactly(q, S) == Range(q) = S /\ Len(q) = Cardinality(S)

\* C1: whatever the sizes of the two non-empty sets, a receive that returns
\* returns exactly the elements of Y that are in X, each of them once.
C1_ExactIntersection ==
    r_result = "Ok" => HoldsExactly(intersection, YSet \cap X)

\* C2 (round trip): when Y holds the elements of X, a receive that returns
\* returns |Y| elements which are, as a set, Y; a send that ends returned the
\* unit; and while the transport is up neither party fails on I/O or on the
\* input size, and some party can always take its next step until both ended.
C2_RoundTrip ==
    (YSet = X /\ X # {}) =>
        /\ r_result = "Ok" =>
              Len(intersection) = Len(Y) /\ Range(intersection) = YSet
        /\ s_pc = "Completed" => s_result = "Ok"
        /\ ~closed =>
              /\ s_pc # "Failed"
              /\ r_pc = "Failed" => r_result = "CuckooFailed"
              /\ (STerminal /\ RTerminal) \/ r_pc = "Failed" \/ ENABLED NextReliable

\* C2's case: both parties returned, the sets were equal and of two elements.
C2_Witness ==
    /\ YSet = X /\ Len(Y) = 2
    /\ s_result = "Ok" /\ r_result = "Ok"
    /\ Len(intersection) = 2

\* C3 (disjointness): when no element of Y is in X, a receive that returns
\* returns the empty vector.
C3_Disjoint ==
    (YSet \cap X = {} /\ r_result = "Ok") => intersection = <<>>

\* C3's case: disjoint non-empty sets, receive returned after reading
\* records of the Sender into its sets.
C3_Witness ==
    /\ YSet \cap X = {} /\ Cardinality(X) = Len(Y)
    /\ r_result = "Ok" /\ hs[1] # {} /\ s_result = "Ok"

\* Sanity of the model, not a claim: with sets of one size the intersection
\* is exact.
EqualSizesExact ==
    (r_result = "Ok" /\ Len(Y) = Cardinality(X)) =>
        HoldsExactly(intersection, YSet \cap X)

IsPrefix(a, b) == Len(a) <= Len(b) /\ a = SubSeq(b, 1, Len(a))

\* Position of a phase in an order (0 if it is not in it).
Rank(ph, order) ==
    IF \E k \in 1..Len(order) : order[k] = ph
    THEN CHOOSE k \in 1..Len(order) : order[k] = ph
    ELSE 0

\* The order of the claim, and the order of the code.
ClaimedOrder == <<"cointoss", "oprf_init", "ms", "oprf", "bin", "stash">>
WireOrder == <<"oprf_init", "cointoss", "ms", "oprf", "bin", "stash">>

\* C4 as stated: coin toss, then OPRF init, then (m, s), then the OPRF
\* rounds, then the bin streams, then the stash streams; no message of a
\* later phase is written before one of an earlier phase.
C4_ClaimedWireOrder ==
    \A a, b \in 1..Len(wlog) :
        a < b => Rank(wlog[a], ClaimedOrder) < Rank(wlog[b], ClaimedOrder)

\* C4 as amended: the writes come in the order OPRF init, coin toss,
\* (m, s), OPRF rounds, bin streams, stash streams; no message of a later
\* phase is written before one of an earlier phase, and a send that returned
\* has gone through all of them (the stash streams when s > 0).
C4_WireOrder ==
    /\ IsPrefix(wlog, WireOrder)
    /\ s_result = "Ok" =>
          wlog = IF s_stashsize > 0 THEN WireOrder ELSE Take(WireOrder, 5)

\* C4's case: a run that wrote all six phases.
C4_Witness == wlog = WireOrder /\ s_result = "Ok" /\ r_result = "Ok"

\* C5 (stream alignment): every record in H_i is a record the Sender
\* emitted in bin stream i, every record in S_j one it emitted in stash
\* stream j, and once both parties returned no byte is left unread.
C5_StreamAlignment ==
    /\ \A i \in 1..Len(hs) : \A rec \in hs[i] :
          \E k \in 1..Len(s_inputs) :
              rec = BinRecord(s_inputs[k], i - 1, s_nbins, s_masksize)
    /\ \A j \in 1..Len(ss) : \A rec \in ss[j] :
          \E k \in 1..Len(s_inputs) :
              rec = StashRecord(s_inputs[k], j - 1, s_nbins, s_masksize)
    /\ (s_result = "Ok" /\ r_result = "Ok") => s2r = <<>>

\* A party waits in a read the bytes in flight cannot satisfy.
SBlocked ==
    \/ s_pc \in {"InitWait", "CoinWait", "Oprf"} /\ r2s = <<>>
    \/ s_pc = "ReadMS" /\ Len(r2s) < 2 * UsizeBytes
RBlocked ==
    \/ r_pc \in {"InitWait", "Initialized", "CoinWait"} /\ s2r = <<>>
    \/ r_pc \in {"Bins", "Stash"} /\ Len(s2r) < r_masksize

\* C6 (lock step), over a transport that stays up, for non-empty X and Y:
\* never are both parties blocked, and never is one party blocked in a read
\* after the other has returned (its bytes can then never come).
C6_LockStep ==
    (X # {} /\ Y # <<>>) =>
        /\ ~(SBlocked /\ RBlocked)
        /\ s_pc = "Completed" => ~RBlocked
        /\ r_pc = "Completed" => ~SBlocked

\* The records a successful receive reads: n for each bin and stash stream.
RecordsToRead == NHASHES * Len(Y) + r_stashsize * Len(Y)

\* C7 (atomic output): a receive that failed returned an error and built no
\* intersection element; the intersection exists only in a receive that
\* returned it, and that one has read all 3 n bin and s n stash records.
C7_AtomicOutput ==
    /\ r_pc = "Failed" => (r_result \notin {"Ok", "none"} /\ intersection = <<>>)
    /\ intersection # <<>> => r_result = "Ok"
    /\ r_result = "Ok" => r_reads = RecordsToRead
    /\ r_reads <= RecordsToRead

\* C7's case: the transport was closed in the middle of the second bin
\* stream and receive failed on the read.
C7_Witness ==
    /\ closed /\ r_pc = "Failed" /\ r_result = "Io"
    /\ Len(Y) = 2 /\ r_reads = 3 /\ hs[1] # {} /\ intersection = <<>>

\* C8 (Sender's transcript length): a send that returned has written
\* 3 n sigma + s n sigma bytes outside the coin toss and the OPRF, n and
\* sigma being those of X and s the stash size of the schedule: a number that
\* depends on Y through its size only.
C8_SenderBytes ==
    s_result = "Ok" =>
        s_psz = NHASHES * Cardinality(X) * compute_masksize(Cardinality(X))
                  + sched * Cardinality(X) * compute_masksize(Cardinality(X))

\* C8's case: a send with a stash phase returned.
C8_Witness == s_result = "Ok" /\ s_stashsize > 0 /\ Cardinality(X) = 2

\* The 16 bytes of (m, s) for the Receiver's vector.
ExpectedMS == EncodeUsize(compute_nbins(Len(Y))) \o EncodeUsize(sched)

\* C9 (Receiver's transcript): outside the coin toss and the OPRF the
\* Receiver writes nothing but m then s, 8 bytes each, flushed before it
\* drives the OPRF, the same whatever X is; the Sender reads the two in that
\* order before it drives the OPRF, for m + s slots.
C9_ReceiverMS ==
    /\ r_psz \in {<<>>, ExpectedMS}
    /\ Len(ExpectedMS) = 2 * UsizeBytes
    /\ r_pc \in {"Oprf", "Bins", "Stash", "Reconstruct", "Completed"} =>
          r_psz = ExpectedMS /\ r_buf = <<>>
    /\ IsPrefix(r_wrote, <<"oprf_init", "cointoss", "ms", "oprf">>)
    /\ s_pc \in {"Oprf", "Bins", "Stash", "StashFlush", "Completed"} =>
          s_nbins = compute_nbins(Len(Y)) /\ s_stashsize = sched
    /\ s_pc \in {"Bins", "Stash", "StashFlush", "Completed"} =>
          s_nseeds = compute_nbins(Len(Y)) + sched

\* C9's case: the Sender has read (m, s) with s > 0 and driven the OPRF.
C9_Witness ==
    /\ s_pc = "Bins" /\ s_stashsize = 1 /\ s_nbins = 3 /\ s_nseeds = 4
    /\ r_psz = ExpectedMS

SInitStates == {"Uninit", "InitWait", "Initialized"}
RInitStates == {"Uninit", "InitWait", "Initialized"}

\* C10 (state machine): a party that has not finished init has written
\* nothing but OPRF init messages; the writes of a party come init first;
\* Completed goes with a returned value and Failed with an error; a party
\* leaves Uninit only through init, never returns to an init state, and once
\* Completed or Failed stays as it is.
C10_StateMachine ==
    /\ [](/\ s_pc \in {"Uninit", "InitWait"} =>
               (IsPrefix(s_wrote, <<"oprf_init">>) /\ s_psz = 0)
          /\ r_pc \in {"Uninit", "InitWait"} =>
               (IsPrefix(r_wrote, <<"oprf_init">>) /\ r_psz = <<>>)
          /\ s_wrote # <<>> => s_wrote[1] = "oprf_init"
          /\ r_wrote # <<>> => r_wrote[1] = "oprf_init"
          /\ s_pc = "Completed" <=> s_result = "Ok"
          /\ s_pc = "Failed" <=> s_result \notin {"none", "Ok"}
          /\ r_pc = "Completed" <=> r_result = "Ok"
          /\ r_pc = "Failed" <=> r_result \notin {"none", "Ok"})
    /\ [][/\ s_pc = "Uninit" => s_pc' \in {"Uninit", "InitWait", "Failed"}
          /\ s_pc = "InitWait" => s_pc' \in {"InitWait", "Initialized", "Failed"}
          /\ s_pc \notin SInitStates => s_pc' \notin SInitStates
          /\ STerminal => (s_pc' = s_pc /\ s_result' = s_result)
          /\ r_pc = "Uninit" => r_pc' \in {"Uninit", "InitWait", "Failed"}
          /\ r_pc = "InitWait" => r_pc' \in {"InitWait", "Initialized", "Failed"}
          /\ r_pc \notin RInitStates => r_pc' \notin RInitStates
          /\ RTerminal => (r_pc' = r_pc /\ r_result' = r_result
                            /\ intersection' = intersection)]_vars

\* C10's case: one party Completed and the other Failed after its init.
C10_Witness ==
    /\ s_pc = "Completed" /\ r_pc = "Failed" /\ r_reads > 0
    /\ "cointoss" \in Range(r_wrote)

(* ---------------------------- empty inputs ----------------------------- *)
\* The positions of send before line 60, and of receive before line 152.
SBeforeMS == {"Uninit", "InitWait", "Initialized", "CoinWait", "Failed"}
RBeforeMS == {"Uninit", "InitWait", "Initialized", "CoinWait", "Build", "Failed"}

\* C11 (empty input): a send on the empty set never returns the unit, and
\* fails with BadInputSize (with Io only on a closed transport) before it
\* reads (m, s) and before it writes a stream record; a receive on the empty
\* vector never returns a vector, and fails the same way before it writes
\* (m, s).
C11_EmptyInput ==
    /\ X = {} =>
          /\ s_pc \in SBeforeMS
          /\ s_result \in {"none", "BadInputSize", "Io"}
          /\ s_result = "Io" => closed
          /\ s_psz = 0 /\ s_buf = <<>>
          /\ IsPrefix(s_wrote, <<"oprf_init", "cointoss">>)
    /\ Y = <<>> =>
          /\ r_pc \in RBeforeMS
          /\ r_result \in {"none", "BadInputSize", "Io"}
          /\ r_result = "Io" => closed
          /\ r_psz = <<>> /\ r_buf = <<>>
          /\ IsPrefix(r_wrote, <<"oprf_init", "cointoss">>)
          /\ intersection = <<>>

\* C11's case: both parties came empty-handed and both were turned away.
C11_Witness ==
    /\ X = {} /\ s_result = "BadInputSize"
    /\ Y = <<>> /\ r_result = "BadInputSize"
    /\ ~closed

(* --------------------------- bin/key agreement ------------------------- *)
\* The send has the seeds, the receive its OPRF outputs.
BothKeyed ==
    /\ s_pc \in {"Bins", "Stash", "StashFlush", "Completed"}
    /\ r_outputs # <<>>

\* The bin slots (1-based) whose token the Sender holds too.
SharedBinSlots ==
    {p \in 1..Len(tbl) :
        /\ IsSome(tbl[p])
        /\ IsSome(Unwrap(tbl[p]).hash_index)
        /\ Unwrap(tbl[p]).entry \in Range(s_inputs)}

\* The Sender's bin of the token of slot p is the slot, with and without the
\* hash index xor-ed in, and its record is the OPRF of slot p on t ^ h_i.
SameBin(p) ==
    LET t == Unwrap(tbl[p]).entry
        i == Unwrap(Unwrap(tbl[p]).hash_index)
    IN /\ CuckooBin(t, i, s_nbins) = p - 1
       /\ CuckooBin(BitXor(t, hindex(i)), i, s_nbins) = p - 1
       /\ BitXor(t, hindex(i)) = r_queries[p]
       /\ BinRecord(t, i, s_nbins, s_masksize)
             = OprfPrefix(p - 1, BitXor(t, hindex(i)), s_masksize)

\* The record the Sender emits for the token of slot p in its bin stream is
\* the prefix the Receiver cuts from its OPRF output of slot p.
SameRecord(p) ==
    LET t == Unwrap(tbl[p]).entry
        i == Unwrap(Unwrap(tbl[p]).hash_index)
    IN BinRecord(t, i, s_nbins, s_masksize)
          = OprfPrefix(r_outputs[p][1], r_outputs[p][2], r_masksize)

\* C12 (bin/key agreement): for a token both parties hold, which the table
\* holds in bin slot p with hash_index Some(i), the Sender's bin(t, i, m) is
\* p, xor-ing h_i does not change it, the record of t in bin stream i is
\* encode(t ^ h_i) masked with seeds[p], and that record equals the prefix
\* of the Receiver's OPRF output of slot p.
C12_BinKeyAgreement ==
    BothKeyed => \A p \in SharedBinSlots : SameBin(p) /\ SameRecord(p)

\* Sanity of the model, not a claim: the bins always agree, and the records
\* agree whenever the two inputs are of one size.
EqualSizesAgree ==
    BothKeyed =>
        \A p \in SharedBinSlots :
            /\ SameBin(p)
            /\ Len(Y) = Cardinality(X) => SameRecord(p)

(* --------------------------- the query vector ------------------------- *)
\* The query the claim gives slot p (1-based) of the table.
ClaimedQuery(p) ==
    IF tbl[p] = None THEN 0
    ELSE LET item == Unwrap(tbl[p])
             token == r_tokens[item.input_index]
         IN IF item.hash_index = None THEN token
            ELSE BitXor(token, Unwrap(item.hash_index))

\* C13 (query vector): once formed, the vector of OPRF queries has m + s
\* entries, one per slot in slot order (the assert_eq! never fires): the
\* token xor the hash index for a bin item, which sits below m, the token
\* itself for a stash item, which sits at m or above, and the all-zero
\* default for an empty slot.
C13_QueryVector ==
    /\ r_result # "Panic"
    /\ r_queries # <<>> =>
          /\ Len(r_queries) = r_nbins + r_stashsize
          /\ Len(r_queries) = compute_nbins(Len(Y)) + sched
          /\ Len(r_queries) = Len(tbl)
          /\ \A p \in 1..Len(tbl) :
                /\ r_queries[p] = ClaimedQuery(p)
                /\ tbl[p] # None =>
                      (Unwrap(tbl[p]).hash_index # None <=> p <= r_nbins)
    /\ r_pc \in {"Oprf", "Bins", "Stash", "Reconstruct", "Completed"} =>
          r_queries # <<>>
    /\ r_outputs # <<>> =>
          /\ Len(r_outputs) = Len(r_queries)
          /\ \A p \in 1..Len(r_outputs) : r_outputs[p] = <<p - 1, r_queries[p]>>

\* C13's case: a vector with a bin item under a hash index that changes the
\* token, a stash item and two empty slots went into the OPRF.
C13_Witness ==
    /\ r_pc = "Bins" /\ Len(r_queries) = 4
    /\ \E p \in 1..3 :
          /\ tbl[p] # None
          /\ Unwrap(tbl[p]).hash_index \in {Some(1), Some(2)}
          /\ r_queries[p] # Unwrap(tbl[p]).entry
    /\ tbl[4] # None /\ r_queries[4] = Unwrap(tbl[4]).entry
    /\ \E p \in 1..3 : tbl[p] = None /\ r_queries[p] = 0

(* ------------------------------ empty slots --------------------------- *)
\* The prefix receive cuts from the OPRF output of slot p (1-based).
SlotPrefix(p) == OprfPrefix(r_outputs[p][1], r_outputs[p][2], r_masksize)

\* Every record receive has read, whatever the stream.
AllRecords == UNION (Range(hs) \cup Range(ss))

\* The occupied slots whose prefix is among the records.
OccupiedHits == {p \in 1..Len(tbl) : tbl[p] # None /\ SlotPrefix(p) \in AllRecords}

\* The empty slots whose prefix is among the records.
EmptyHits == {p \in 1..Len(tbl) : tbl[p] = None /\ SlotPrefix(p) \in AllRecords}

\* C14 (empty slots): the vector receive returns has no more elements than
\* there are occupied slots with their prefix among the records: an empty
\* slot yields nothing, even when the Sender holds the default token and the
\* prefix of the empty slot's OPRF output is one of its records.
C14_EmptySlots ==
    r_result = "Ok" =>
        /\ Len(intersection) <= Cardinality(OccupiedHits)
        /\ \A p \in EmptyHits : r_queries[p] = 0
        /\ (OccupiedHits = {} /\ EmptyHits # {}) => intersection = <<>>

\* C14's case: the Sender holds the all-zero token, its record is the prefix
\* of an empty slot, and receive returned nothing for it.
C14_Witness ==
    /\ r_result = "Ok" /\ 0 \in Range(s_inputs)
    /\ EmptyHits # {} /\ OccupiedHits = {}
    /\ YSet \cap X = {} /\ Len(Y) = Cardinality(X)

(* ------------------------------ set selection ------------------------- *)
\* The set the claim has the item of slot p (1-based) tested against.
ClaimedSet(p) ==
    IF Unwrap(tbl[p]).hash_index # None
    THEN hs[Unwrap(Unwrap(tbl[p]).hash_index) + 1]
    ELSE ss[p - r_nbins]

\* C15 (set selection): once the sets exist, a bin item under Some(i) is
\* looked up in H_i, with i < 3, and a stash item of slot p = m + j in S_j,
\* with 0 <= j < s, so that neither the subtraction nor an index panics; and
\* the input of an occupied slot is in the returned vector exactly if the
\* prefix of the slot is in that one set.
C15_SetSelection ==
    /\ r_result # "Panic"
    /\ hs # <<>> =>
          /\ Len(hs) = NHASHES /\ Len(ss) = r_stashsize
          /\ \A p \in 1..Len(tbl) : tbl[p] # None =>
                LET item == Unwrap(tbl[p])
                    set == SlotSet(item, p - 1, r_nbins)
                IN /\ SetInRange(set, hs, ss)
                   /\ item.hash_index # None =>
                         /\ set = <<"H", Unwrap(item.hash_index)>>
                         /\ set[2] \in 0..(NHASHES - 1)
                   /\ item.hash_index = None =>
                         /\ p - 1 >= r_nbins
                         /\ set = <<"S", (p - 1) - r_nbins>>
                         /\ set[2] \in 0..(r_stashsize - 1)
    /\ r_result = "Ok" =>
          \A p \in 1..Len(tbl) : tbl[p] # None =>
              (Y[Unwrap(tbl[p]).input_index] \in Range(intersection)
                  <=> SlotPrefix(p) \in ClaimedSet(p))

\* C15's case: a bin item under a hash index above 0 and an item of the
\* second stash slot (j = 1) were both looked up and both found.
C15_Witness ==
    /\ r_result = "Ok" /\ Len(intersection) = 2 /\ r_stashsize = 2
    /\ tbl[r_nbins + 1] = None /\ tbl[r_nbins + 2] # None
    /\ \E p \in 1..r_nbins :
          tbl[p] # None /\ Unwrap(tbl[p]).hash_index \in {Some(1), Some(2)}

(* ------------------------------ output order ------------------------- *)
\* The slot (1-based) the table holds the input e of Y in.
SlotOf(e) ==
    CHOOSE p \in 1..Len(tbl) :
        tbl[p] # None /\ Y[Unwrap(tbl[p]).input_index] = e

\* C16 (output order): the vector receive returns lists the matched inputs
\* in the order of the slots that hold them, bins 0..m first and then the
\* stash, whatever their order in Y: of two elements the one in the lower
\* slot comes first.
C16_OutputOrder ==
    r_result = "Ok" =>
        /\ \A a \in 1..Len(intersection) :
              \E p \in 1..Len(tbl) :
                  tbl[p] # None /\ Y[Unwrap(tbl[p]).input_index] = intersection[a]
        /\ \A a, b \in 1..Len(intersection) :
              a < b => SlotOf(intersection[a]) < SlotOf(intersection[b])

\* C16's case: two inputs matched, and the second of Y, sitting in the
\* lower slot, came out first.
C16_Witness ==
    /\ r_result = "Ok" /\ Len(Y) = 2
    /\ intersection = <<Y[2], Y[1]>>
    /\ SlotOf(Y[2]) < SlotOf(Y[1])

(* ------------------------------ the shuffles -------------------------- *)
\* The bytes cut into records of the given size.
Chunks(bytes, size) ==
    [k \in 1..(Len(bytes) \div size) |-> SubSeq(bytes, (k - 1) * size + 1, k * size)]

\* What the Sender has written to its writer and the Receiver has not read.
Outgoing == s2r \o s_buf

\* The bytes a step of the Sender adds to its writer.
NewBytes == SubSeq(s2r' \o s_buf', Len(Outgoing) + 1, Len(s2r' \o s_buf'))

\* The record of token t in the stream the Sender is about to write.
NextRecord(t) ==
    IF s_pc = "Bins"
    THEN BinRecord(t, s_i, s_nbins, s_masksize)
    ELSE StashRecord(t, s_i, s_nbins, s_masksize)

\* The stream the Sender is about to write, its tokens in the order f.
NextStream(f) ==
    Flatten([k \in 1..Len(s_inputs) |-> NextRecord(s_inputs[f[k]])])

\* A step that writes one stream.
StreamStep == s_pc \in {"Bins", "Stash"} /\ s_psz' # s_psz

\* C17 (shuffles): a bin or stash stream is n records, one for each token
\* of tx and none twice; and whatever the streams before it were, the next
\* stream can come out in every order of the tokens, so that every
\* combination of orders of the streams is reachable (the Sender writes
\* without waiting for the Receiver to read, so the orders are stated where
\* all it wrote is still in the writer or on the wire).
C17_Shuffles ==
    /\ [](s_pc \in {"Bins", "Stash"} =>
            /\ Len(s_inputs) = Cardinality(X)
            /\ Cardinality(Range(s_inputs)) = Cardinality(X)
            /\ r_reads = 0 =>
                  \A f \in Perms(Len(s_inputs)) :
                      ENABLED ((S_BinStream \/ S_StashStream)
                                  /\ NewBytes = NextStream(f)))
    /\ [][StreamStep =>
            LET recs == Chunks(NewBytes, s_masksize)
            IN /\ Len(NewBytes) = Len(s_inputs) * s_masksize
               /\ Len(recs) = Len(s_inputs)
               /\ \A k \in 1..Len(s_inputs) :
                     Cardinality({l \in 1..Len(recs) :
                                     recs[l] = NextRecord(s_inputs[k])}) = 1]_vars

\* C17's case: the two tokens went out in one order in the first bin
\* stream, in the other order in the second, in the first order again in the
\* third, and in the other order in the stash stream behind them.
C17_Witness ==
    /\ Len(s_inputs) = 2 /\ r_reads = 0 /\ s_pc = "StashFlush" /\ s_stashsize = 1
    /\ LET recs == Chunks(Outgoing, s_masksize)
           a == s_inputs[1]
           b == s_inputs[2]
       IN /\ Len(recs) = 8
          /\ recs[1] = BinRecord(a, 0, s_nbins, s_masksize)
          /\ recs[3] = BinRecord(b, 1, s_nbins, s_masksize)
          /\ recs[5] = BinRecord(a, 2, s_nbins, s_masksize)
          /\ recs[7] = StashRecord(b, 0, s_nbins, s_masksize)

(* ---------------------------- flush discipline ------------------------ *)
\* C18 (flush discipline): the Receiver's writer is empty once (m, s) is
\* written; the Sender's writer is empty between the bin streams and after
\* them; in the stash phase it holds the stash streams written so far, all
\* of them, until the one flush at its end; and when send or receive has
\* returned, with or without a stash phase, the party's writer is empty.
C18_FlushDiscipline ==
    /\ r_psz # <<>> => r_buf = <<>>
    /\ r_result = "Ok" => r_buf = <<>>
    /\ s_pc = "Bins" => s_buf = <<>>
    /\ s_pc = "Stash" =>
          Len(s_buf) = s_i * Len(s_inputs) * s_masksize
    /\ s_pc = "StashFlush" =>
          Len(s_buf) = s_stashsize * Len(s_inputs) * s_masksize
    /\ s_result = "Ok" => s_buf = <<>>
    /\ (s_result = "Ok" /\ r_reads = 0) => Len(s2r) = s_psz

\* C18's case: a send with two stash streams returned with all it wrote on
\* the wire, and the Receiver has yet to read.
C18_Witness ==
    /\ s_result = "Ok" /\ s_stashsize = 2 /\ Len(s_inputs) = 2
    /\ s_buf = <<>> /\ r_reads = 0
    /\ Len(s2r) = (NHASHES + 2) * 2 * s_masksize

\* The other case: a send without a stash phase returned.
C18_WitnessNoStash ==
    /\ s_result = "Ok" /\ s_stashsize = 0 /\ Len(s_inputs) = 2
    /\ s_buf = <<>> /\ r_reads = 0
    /\ Len(s2r) = NHASHES * 2 * s_masksize

(* ----------------------------- the seeds' range ----------------------- *)
\* C19 (seeds in range): with the m and s it read from the wire, the Sender
\* holds m + s seeds; in the bin phase m > 0 and the bin of every token
\* under every hash function is in [0, m); in the stash phase the index of
\* the stream being written, m + j with j < s, is in [m, m + s); send never
\* panics on an index.
C19_SeedsInRange ==
    /\ s_result # "Panic"
    /\ s_pc \in {"Bins", "Stash", "StashFlush", "Completed"} =>
          /\ s_nseeds = s_nbins + s_stashsize
          /\ s_nbins > 0
          /\ \A k \in 1..Len(s_inputs) : \A i \in 0..(NHASHES - 1) :
                /\ BinSeedIndex(s_inputs[k], i, s_nbins) \in 0..(s_nbins - 1)
                /\ BinSeedIndex(s_inputs[k], i, s_nbins) < s_nseeds
          /\ \A j \in 0..(s_stashsize - 1) :
                /\ StashSeedIndex(j, s_nbins) \in s_nbins..(s_nbins + s_stashsize - 1)
                /\ StashSeedIndex(j, s_nbins) < s_nseeds
    /\ s_pc = "Stash" => s_i \in 0..(s_stashsize - 1)
    /\ s_pc = "Bins" => s_i \in 0..(NHASHES - 1)

\* C19's case: the Sender is about to write the last stash stream, under the
\* last of its five seeds.
C19_Witness ==
    /\ s_pc = "Stash" /\ s_i = 1 /\ s_stashsize = 2 /\ s_nbins = 3
    /\ s_nseeds = 5 /\ StashSeedIndex(s_i, s_nbins) = 4
    /\ Len(s_inputs) = 2

(* --------------------------- what receive returns --------------------- *)
\* The slots (1-based) that hold the input of index k of Y.
SlotsOfIndex(k) ==
    {p \in 1..Len(tbl) : tbl[p] # None /\ Unwrap(tbl[p]).input_index = k}

\* C20 (own inputs only): whatever X is and whatever receive read from the
\* streams, the vector it returns holds inputs of Y and nothing else, no
\* input index more than once, so that it is no longer than Y; every input
\* sits in exactly one slot of the table; and Y itself is never changed.
C20_OwnInputsOnly ==
    /\ [](/\ tbl # <<>> =>
               \A k \in 1..Len(Y) : Cardinality(SlotsOfIndex(k)) = 1
          /\ r_result = "Ok" =>
               /\ \A a \in 1..Len(intersection) : intersection[a] \in YSet
               /\ \A k \in 1..Len(Y) :
                     Cardinality({a \in 1..Len(intersection) :
                                     intersection[a] = Y[k]}) <= 1
               /\ Len(intersection) <= Len(Y)
          /\ r_result # "Ok" => intersection = <<>>)
    /\ [][Y' = Y]_vars

\* C20's case: the sets were of different sizes, so that receive cut its
\* records across those of the Sender, and it returned an input of its own.
C20_Witness ==
    /\ r_result = "Ok" /\ Cardinality(X) # Len(Y)
    /\ intersection # <<>> /\ intersection[1] \in YSet

====
